---- MODULE Spec2Model ----
(***************************************************************************)
(* MimoFPS: the frame encoder `send` and the wake-reactive control loop    *)
(* `main` of src/src/main.rs, as a state machine.                          *)
(*                                                                         *)
(* Bytes are integers 0..255, a heapless::Vec<u8, N> is a sequence of at   *)
(* most N bytes, Option<Vec> is a record [some, v].  Frame offsets of the  *)
(* source are 0-based; sequence indices here are 1-based (offset + 1).     *)
(***************************************************************************)
EXTENDS Integers, Sequences, FiniteSets, TLC

VARIABLES
    \* ---- the encoder under test (specification SpecSend) ----
    pid,          \* Identifier argument of send
    command,      \* Instruction argument of send
    data,         \* Option<Vec<u8, 32>> argument of send
    frame,        \* the Vec<u8, 256> send returned
    called,       \* send has returned for the current arguments
    \* ---- the control loop (specification Spec) ----
    pc,           \* position of main's loop
    level,        \* the wake line's present logic level
    halLatches,   \* whether the GPIO driver keeps an edge seen outside a wait
    latched,      \* an edge happened while no wait was pending
    color,        \* `color` of the iteration
    read_buf,     \* read_buf[0]
    data_read,    \* the accumulation buffer Vec<u8, 64>
    seed,         \* which reply the sensor sends in this iteration
    delivered,    \* bytes the transport delivered during this drain
    readErrs,     \* reads of this drain that completed with a transport error
    drainEnd,     \* how the drain of this iteration ended
    primOk,       \* outcome of the primary write of this iteration
    follOk,       \* outcome of the follow-up write of this iteration
    edges,        \* wake-line transitions so far
    waits,        \* edge waits completed so far
    levels,       \* the levels sampled, one per iteration
    sent,         \* the frames handed to tx.write, in order
    io,           \* the sensor-facing operations now outstanding
    edgeLevel,    \* the level the line took at the edge that ended the wait
    abortedAt     \* which unwrap panicked, if any

codecVars == <<pid, command, data, frame, called>>
loopVars == <<pc, level, halLatches, latched, color, read_buf, data_read, seed,
              delivered, readErrs, drainEnd, primOk, follOk, edges, waits,
              levels, sent, io, edgeLevel, abortedAt>>
vars == <<codecVars, loopVars>>

----------------------------------------------------------------------------
(* Bounds of the model. *)

\* Wake-line transitions explored in one run.
MaxEdges == 3
\* Read errors are explored during the first ErrWindow read attempts of a drain.
ErrWindow == 2
\* Replies the sensor may send: the k-th byte of a reply is (seed + k) mod 256.
ReplySeeds == {0, 239}
\* Payload patterns given to send: byte k is (base + k * step) mod 256.
PayloadBases == {0, 255}
PayloadSteps == {0, 1}

----------------------------------------------------------------------------
(* Capacities fixed by the source's types. *)

DataCap == 32      \* Vec<u8, 32>
SendCap_Small == DataCap
SendCap == 256     \* Vec<u8, 256>
ReadCap == 64      \* Vec<u8, 64>
WriteLen == 16     \* [u8; 16]

----------------------------------------------------------------------------
(* The r503 crate's catalogue: the codes `into()` yields. *)

IdentifierCode ==
    [Command |-> 1, Data |-> 2, Acknowledge |-> 7, EndOfData |-> 8]

InstructionCode ==
    [GetImage |-> 1, AuraLedConfig |-> 53, HandShake |-> 64]

LightPatternCode ==
    [Breathing |-> 1, Flashing |-> 2, AlwaysOn |-> 3, AlwaysOff |-> 4]

ColorCode ==
    [Red |-> 1, Blue |-> 2, Purple |-> 3, Green |-> 4, Cyan |-> 6]

Identifiers == DOMAIN IdentifierCode
Instructions == DOMAIN InstructionCode

\* r503::HEADER = 0xEF01
HEADER == 61185
\* r503::ADDRESS = 0xFFFFFFFF, as its four bytes high byte first
ADDRESS_BE == <<255, 255, 255, 255>>

----------------------------------------------------------------------------
(* heapless::Vec and integer helpers. *)

\* u16::to_be_bytes
ToBeBytes2(x) == <<x \div 256, x % 256>>

ToLeBytes2(x) == <<x % 256, x \div 256>>

\* Vec::extend_from_slice: all of s, or nothing when it does not fit.
ExtendFromSlice(v, s, cap) == IF Len(v) + Len(s) > cap THEN v ELSE v \o s

\* Vec::push: the item, or nothing when the vector is full.
Push(v, b, cap) == IF Len(v) >= cap THEN v ELSE Append(v, b)

RECURSIVE SumBytes(_)
SumBytes(s) == IF s = <<>> THEN 0 ELSE Head(s) + SumBytes(Tail(s))

\* r503::compute_checksum: the 16-bit sum of the buffer's bytes from the
\* identifier byte (offset 6) to its end.
compute_checksum(buf) ==
    SumBytes(SubSeq(buf, 7, Len(buf))) % 65536

----------------------------------------------------------------------------
(* fn send (main.rs 126-169). *)

NoneData == [some |-> FALSE, v |-> <<>>]
SomeData(v) == [some |-> TRUE, v |-> v]

HeaderBytes_LE == ToLeBytes2(HEADER)
\* r503::HEADER.to_be_bytes()
HeaderBytes == ToBeBytes2(HEADER)

LengthField_NoInstruction(d) == Len(d) + 2
\* 1 + data.len() + 2
LengthField(d) == 1 + Len(d) + 2

\* The conversion of the length to u16 succeeds (try_into().unwrap()).
LengthFits(d) == LengthField(d) <= 65535

AppendLength_Always(buf, opt) ==
    ExtendFromSlice(buf, ToBeBytes2(LengthField(opt.v)), SendCap)
\* if let Some(data) = &data { ... extend_from_slice(&len.to_be_bytes()) }
AppendLength(buf, opt) ==
    IF opt.some
    THEN ExtendFromSlice(buf, ToBeBytes2(LengthField(opt.v)), SendCap)
    ELSE buf

AppendData_DropLast(buf, opt) ==
    IF opt.some /\ opt.v # <<>>
    THEN ExtendFromSlice(buf, SubSeq(opt.v, 1, Len(opt.v) - 1), SendCap)
    ELSE buf
\* if let Some(data) = &data { extend_from_slice(data) }
AppendData(buf, opt) ==
    IF opt.some THEN ExtendFromSlice(buf, opt.v, SendCap) ELSE buf

AppendChecksum_WholeBuffer(buf) ==
    ExtendFromSlice(buf, ToBeBytes2(SumBytes(buf) % 65536), SendCap)
\* let chk = compute_checksum(send_buf.clone()); extend_from_slice(&chk.to_be_bytes())
AppendChecksum(buf) ==
    ExtendFromSlice(buf, ToBeBytes2(compute_checksum(buf)), SendCap)

\* extend_from_slice returns Ok(()): the slice fits.
FitsSlice(v, sl, cap) == Len(v) + Len(sl) <= cap

\* push returns Ok(()): the vector is not full.
FitsPush(v, cap) == Len(v) < cap

\* Every append of send returns Ok, i.e. none of the results that send
\* discards with `let _ =` is an Err.
SendAppendsOk(p, c, opt) ==
    LET b1 == ExtendFromSlice(<<>>, HeaderBytes, SendCap)
        b2 == ExtendFromSlice(b1, ADDRESS_BE, SendCap)
        b3 == ExtendFromSlice(b2, <<IdentifierCode[p]>>, SendCap)
        b4 == AppendLength(b3, opt)
        b5 == Push(b4, InstructionCode[c], SendCap)
        b6 == AppendData(b5, opt)
    IN  /\ FitsSlice(<<>>, HeaderBytes, SendCap)
        /\ FitsSlice(b1, ADDRESS_BE, SendCap)
        /\ FitsSlice(b2, <<IdentifierCode[p]>>, SendCap)
        /\ opt.some => FitsSlice(b3, ToBeBytes2(LengthField(opt.v)), SendCap)
        /\ FitsPush(b4, SendCap)
        /\ opt.some => FitsSlice(b5, opt.v, SendCap)
        /\ FitsSlice(b6, ToBeBytes2(compute_checksum(b6)), SendCap)

send(p, c, opt) ==
    LET b1 == ExtendFromSlice(<<>>, HeaderBytes, SendCap)
        b2 == ExtendFromSlice(b1, ADDRESS_BE, SendCap)
        b3 == ExtendFromSlice(b2, <<IdentifierCode[p]>>, SendCap)
        b4 == AppendLength(b3, opt)
        b5 == Push(b4, InstructionCode[c], SendCap)
        b6 == AppendData(b5, opt)
    IN  AppendChecksum(b6)

----------------------------------------------------------------------------
(* The two commands main builds. *)

PrimaryPayload_NoRepeat(c) ==
    LET d1 == Push(<<>>, LightPatternCode["Breathing"], DataCap)
        d2 == Push(d1, 255, DataCap)
    IN  Push(d2, ColorCode[c], DataCap)
\* data_buf of the primary command (lines 64-72)
PrimaryPayload(c) ==
    LET d1 == Push(<<>>, LightPatternCode["Breathing"], DataCap)
        d2 == Push(d1, 255, DataCap)
        d3 == Push(d2, ColorCode[c], DataCap)
    IN  Push(d3, 0, DataCap)

\* data_buf of the follow-up command (lines 105-110)
FollowUpPayload ==
    LET d1 == Push(<<>>, LightPatternCode["AlwaysOn"], DataCap)
        d2 == Push(d1, 0, DataCap)
        d3 == Push(d2, ColorCode["Green"], DataCap)
    IN  Push(d3, 0, DataCap)

PrimaryFrame(c) == send("Command", "AuraLedConfig", SomeData(PrimaryPayload(c)))
FollowUpFrame == send("Command", "AuraLedConfig", SomeData(FollowUpPayload))

----------------------------------------------------------------------------
(* Inputs of send explored by SpecSend. *)

Pattern(n, base, step) == [k \in 1..n |-> (base + (k - 1) * step) % 256]

Payloads ==
    { Pattern(n, base, step) :
        n \in 0..DataCap, base \in PayloadBases, step \in PayloadSteps }
    \cup {PrimaryPayload("Cyan"), PrimaryPayload("Blue"), FollowUpPayload}

DataArgs == {NoneData} \cup { SomeData(v) : v \in Payloads }

----------------------------------------------------------------------------
(* Specification SpecSend: send applied to every explored argument. *)

LoopIdle ==
    /\ pc = "wait"
    /\ level = "Low"
    /\ halLatches = FALSE
    /\ latched = FALSE
    /\ color = "Blue"
    /\ read_buf = 0
    /\ data_read = <<>>
    /\ seed = 0
    /\ delivered = 0
    /\ readErrs = 0
    /\ drainEnd = "none"
    /\ primOk = "none"
    /\ follOk = "none"
    /\ edges = 0
    /\ waits = 0
    /\ levels = <<>>
    /\ sent = <<>>
    /\ io = {"edge"}
    /\ edgeLevel = "Low"
    /\ abortedAt = "none"

SendInit ==
    /\ pid \in Identifiers
    /\ command \in Instructions
    /\ data \in DataArgs
    /\ frame = <<>>
    /\ called = FALSE
    /\ LoopIdle

\* The caller evaluates send(pid, command, data).
CallSend ==
    /\ ~called
    /\ LengthFits(data.v)
    /\ frame' = send(pid, command, data)
    /\ called' = TRUE
    /\ UNCHANGED <<pid, command, data, loopVars>>

\* The caller picks the next arguments.
NextArgs ==
    /\ called
    /\ pid' \in Identifiers
    /\ command' \in Instructions
    /\ data' \in DataArgs
    /\ frame' = <<>>
    /\ called' = FALSE
    /\ UNCHANGED loopVars

SendNext == CallSend \/ NextArgs

SpecSend == SendInit /\ [][SendNext]_vars

----------------------------------------------------------------------------
(* async fn main (main.rs 57-123): the control loop. *)

Other(l) == IF l = "Low" THEN "High" ELSE "Low"

ColorOf_Swapped(l) == IF l = "Low" THEN "Blue" ELSE "Cyan"
\* match wakeup.get_level() { Low => Cyan, High => Blue }
ColorOf(l) == IF l = "Low" THEN "Cyan" ELSE "Blue"

\* into_array::<16>() succeeds exactly on a vector of 16 bytes.
IntoArrayOk(buf) == Len(buf) = WriteLen

\* The k-th byte (k = 1, 2, ...) of the reply the sensor sends.
ReplyByte(s, k) == (s + k) % 256

DeliveredSeq(s, n) == [k \in 1..n |-> ReplyByte(s, k)]

WriteOutcomes == {"ok", "err"}

AfterPrimaryWrite_Abort(ok) == IF ok = "ok" THEN "read" ELSE "wait"
AfterPrimaryWrite_SkipDrain(ok) == "decide"
\* match tx.write(..).await { Ok(..) => (), Err(e) => error!(..) }: both arms
\* fall through to the reply drain.
AfterPrimaryWrite(ok) == "read"

NeedsFollowUp_Always(c) == TRUE
NeedsFollowUp_IfReply(c) == c = "Cyan" /\ data_read # <<>>
\* if color == Color::Cyan
NeedsFollowUp(c) == c = "Cyan"

\* A new wait_for_any_edge: the driver either still reports an edge that
\* happened since the last wait, or has discarded it.
Rearm == latched' = (halLatches /\ latched)

\* An operation on the sensor is started by polling its future, and is over
\* when the future completes or is dropped.
StartOp(s, op) == s \cup {op}
CompleteOp(s, op) == s \ {op}

CancelRead_Leak(s) == s
\* with_timeout resolves to Err(TimeoutError) and drops the read future it
\* owns: the read is cancelled before the match arm runs.
CancelRead(s) == s \ {"read"}

\* The await the loop reaches at position p: the edge wait at the top of the
\* loop, the first or next bounded read in the drain.
EnterIo(p, s) ==
    IF p = "wait" THEN StartOp(s, "edge")
    ELSE IF p = "read" THEN StartOp(s, "read")
    ELSE s

Init ==
    /\ pid = "Command"
    /\ command = "AuraLedConfig"
    /\ data = NoneData
    /\ frame = <<>>
    /\ called = FALSE
    /\ pc = "wait"
    /\ level \in {"Low", "High"}
    /\ halLatches \in BOOLEAN
    /\ latched = FALSE
    /\ color = "Blue"
    /\ read_buf = 0
    /\ data_read = <<>>
    /\ seed = 0
    /\ delivered = 0
    /\ readErrs = 0
    /\ drainEnd = "none"
    /\ primOk = "none"
    /\ follOk = "none"
    /\ edges = 0
    /\ waits = 0
    /\ levels = <<>>
    /\ sent = <<>>
    /\ io = {"edge"}
    /\ edgeLevel = level
    /\ abortedAt = "none"

\* The sensor changes the wake line.  A pending wait_for_any_edge completes;
\* outside a wait the edge is only recorded by the GPIO hardware.
Toggle ==
    /\ edges < MaxEdges
    /\ pc # "panicked"
    /\ level' = Other(level)
    /\ edges' = edges + 1
    /\ IF pc = "wait"
       THEN /\ pc' = "sample"
            /\ waits' = waits + 1
            /\ latched' = FALSE
            /\ io' = CompleteOp(io, "edge")
            /\ edgeLevel' = level'
       ELSE /\ latched' = TRUE
            /\ UNCHANGED <<pc, waits, io, edgeLevel>>
    /\ UNCHANGED <<codecVars, halLatches, color, read_buf, data_read, seed,
                   delivered, readErrs, drainEnd, primOk, follOk, levels, sent,
                   abortedAt>>

\* wait_for_any_edge completes at once on an edge the driver kept.
WaitLatched ==
    /\ pc = "wait"
    /\ latched
    /\ pc' = "sample"
    /\ waits' = waits + 1
    /\ latched' = FALSE
    /\ io' = CompleteOp(io, "edge")
    /\ edgeLevel' = level
    /\ UNCHANGED <<codecVars, level, halLatches, color, read_buf, data_read,
                   seed, delivered, readErrs, drainEnd, primOk, follOk, edges,
                   levels, sent, abortedAt>>

\* let color = match wakeup.get_level() { ... } (lines 59-62)
Sample ==
    /\ pc = "sample"
    /\ color' = ColorOf(level)
    /\ levels' = Append(levels, level)
    /\ pc' = "write1"
    /\ drainEnd' = "none"
    /\ primOk' = "none"
    /\ follOk' = "none"
    /\ delivered' = 0
    /\ readErrs' = 0
    /\ UNCHANGED <<codecVars, level, halLatches, latched, read_buf, data_read,
                   seed, edges, waits, sent, io, edgeLevel, abortedAt>>

\* Lines 64-83: build the primary frame, convert it to [u8; 16] and hand it
\* to tx.write.
WritePrimary ==
    /\ pc = "write1"
    /\ IF IntoArrayOk(PrimaryFrame(color))
       THEN /\ sent' = Append(sent, [kind |-> "primary",
                                     frame |-> PrimaryFrame(color)])
            /\ io' = StartOp(io, "write")
            /\ pc' = "writing1"
            /\ UNCHANGED abortedAt
       ELSE /\ pc' = "panicked"
            /\ abortedAt' = "into_array"
            /\ UNCHANGED <<sent, io>>
    /\ UNCHANGED <<codecVars, level, halLatches, latched, color, read_buf,
                   data_read, seed, delivered, readErrs, drainEnd, primOk,
                   follOk, edges, waits, levels, edgeLevel>>

\* Lines 83-93: tx.write returns (either outcome), read_buf and data_read are
\* created, and the first bounded read is started.
PrimaryWritten ==
    /\ pc = "writing1"
    /\ \E ok \in WriteOutcomes, s \in ReplySeeds :
          /\ primOk' = ok
          /\ seed' = s
          /\ pc' = AfterPrimaryWrite(ok)
    /\ read_buf' = 0
    /\ data_read' = <<>>
    /\ io' = EnterIo(pc', CompleteOp(io, "write"))
    /\ UNCHANGED <<codecVars, level, halLatches, latched, color, delivered,
                   readErrs, drainEnd, follOk, edges, waits, levels, sent,
                   edgeLevel, abortedAt>>

\* data_read.push(read_buf[0]).unwrap() (line 95), then the next read
PushUnwrap(b) ==
    IF Len(data_read) < ReadCap
    THEN /\ data_read' = Append(data_read, b)
         /\ pc' = "read"
         /\ UNCHANGED abortedAt
    ELSE /\ data_read' = data_read
         /\ pc' = "panicked"
         /\ abortedAt' = "push"

\* with_timeout(..) = Ok(Ok(..)): the transport delivered one byte in time.
ReadByte ==
    /\ pc = "read"
    /\ LET b == ReplyByte(seed, delivered + 1)
       IN  /\ read_buf' = b
           /\ PushUnwrap(b)
    /\ delivered' = delivered + 1
    /\ io' = EnterIo(pc', CompleteOp(io, "read"))
    /\ UNCHANGED <<codecVars, level, halLatches, latched, color, seed,
                   readErrs, drainEnd, primOk, follOk, edges, waits, levels,
                   sent, edgeLevel>>

\* with_timeout(..) = Ok(Err(e)): the read completed in time with a transport
\* error; the arm Ok(..) matches it and pushes what read_buf holds.
ReadError ==
    /\ pc = "read"
    /\ Len(data_read) < ErrWindow
    /\ PushUnwrap(read_buf)
    /\ readErrs' = readErrs + 1
    /\ io' = EnterIo(pc', CompleteOp(io, "read"))
    /\ UNCHANGED <<codecVars, level, halLatches, latched, color, read_buf,
                   seed, delivered, drainEnd, primOk, follOk, edges, waits,
                   levels, sent, edgeLevel>>

\* with_timeout(..) = Err(TimeoutError): break (line 97)
ReadTimeout ==
    /\ pc = "read"
    /\ drainEnd' = "timeout"
    /\ pc' = "decide"
    /\ io' = CancelRead(io)
    /\ UNCHANGED <<codecVars, level, halLatches, latched, color, read_buf,
                   data_read, seed, delivered, readErrs, primOk, follOk, edges,
                   waits, levels, sent, edgeLevel, abortedAt>>

\* Lines 104-117 with color == Cyan: build the follow-up frame, convert it to
\* [u8; 16] and hand it to tx.write.
FollowUp ==
    /\ pc = "decide"
    /\ NeedsFollowUp(color)
    /\ IF IntoArrayOk(FollowUpFrame)
       THEN /\ sent' = Append(sent, [kind |-> "followup",
                                     frame |-> FollowUpFrame])
            /\ io' = StartOp(io, "write")
            /\ pc' = "writing2"
            /\ UNCHANGED abortedAt
       ELSE /\ pc' = "panicked"
            /\ abortedAt' = "into_array"
            /\ UNCHANGED <<sent, io>>
    /\ UNCHANGED <<codecVars, level, halLatches, latched, color, read_buf,
                   data_read, seed, delivered, readErrs, drainEnd, primOk,
                   follOk, edges, waits, levels, edgeLevel>>

\* Lines 117-123: tx.write returns (either outcome); back to the top of the
\* loop, where the next edge wait starts.
FollowUpWritten ==
    /\ pc = "writing2"
    /\ \E ok \in WriteOutcomes : follOk' = ok
    /\ pc' = "wait"
    /\ Rearm
    /\ io' = EnterIo(pc', CompleteOp(io, "write"))
    /\ UNCHANGED <<codecVars, level, halLatches, color, read_buf, data_read,
                   seed, delivered, readErrs, drainEnd, primOk, edges, waits,
                   levels, sent, edgeLevel, abortedAt>>

\* Line 104 with another colour: straight back to the top of the loop.
SkipFollowUp ==
    /\ pc = "decide"
    /\ ~NeedsFollowUp(color)
    /\ pc' = "wait"
    /\ Rearm
    /\ io' = EnterIo(pc', io)
    /\ UNCHANGED <<codecVars, level, halLatches, color, read_buf, data_read,
                   seed, delivered, readErrs, drainEnd, primOk, follOk, edges,
                   waits, levels, sent, edgeLevel, abortedAt>>

Next ==
    \/ Toggle
    \/ WaitLatched
    \/ Sample
    \/ WritePrimary
    \/ PrimaryWritten
    \/ ReadByte
    \/ ReadError
    \/ ReadTimeout
    \/ FollowUp
    \/ FollowUpWritten
    \/ SkipFollowUp

Spec == Init /\ [][Next]_vars

----------------------------------------------------------------------------
(* Claims about the frame send returns (checked under SpecSend). *)

\* The 16-bit value of two bytes, high byte first.
BeValue(hi, lo) == hi * 256 + lo

\* C1: with a payload present, the two bytes at frame offsets 7 and 8 are the
\* big-endian value 1 + payload.len() + 2, for every identifier, instruction
\* and payload of 0..=32 bytes.
C1_LengthField ==
    (called /\ data.some) =>
        /\ Len(frame) >= 9
        /\ BeValue(frame[8], frame[9]) = 1 + Len(data.v) + 2

C1_Witness ==
    /\ called
    /\ data.some
    /\ Len(data.v) = DataCap
    /\ frame[8] = 0
    /\ frame[9] = 35

\* C2: the last two bytes of every returned frame are, high byte first, the
\* sum modulo 2^16 of the bytes from offset 6 (the identifier) to the last
\* byte before the checksum; header, address and checksum are not summed.
C2_Checksum ==
    called =>
        /\ Len(frame) >= 10
        /\ BeValue(frame[Len(frame) - 1], frame[Len(frame)])
             = SumBytes(SubSeq(frame, 7, Len(frame) - 2)) % 65536

C2_Witness ==
    /\ called
    /\ data.some
    /\ Len(data.v) = DataCap
    /\ data.v[1] = 255
    /\ data.v[2] = 255
    /\ frame[Len(frame) - 1] > 0

\* C3: for Command / AuraLedConfig and a 4-byte payload the frame is, in wire
\* order: header (high byte first), address (high byte first), 0x01, 0x00 0x07,
\* the instruction code, the payload unchanged, the checksum.
C3_WireOrder ==
    (/\ called
     /\ pid = "Command"
     /\ command = "AuraLedConfig"
     /\ data.some
     /\ Len(data.v) = 4) =>
        /\ Len(frame) = 16
        /\ frame[1] = 239 /\ frame[2] = 1
        /\ \A i \in 3..6 : frame[i] = 255
        /\ frame[7] = 1
        /\ frame[8] = 0 /\ frame[9] = 7
        /\ frame[10] = 53
        /\ SubSeq(frame, 11, 14) = data.v
        /\ BeValue(frame[15], frame[16])
             = (frame[7] + frame[8] + frame[9] + frame[10]
                + data.v[1] + data.v[2] + data.v[3] + data.v[4]) % 65536

C3_Witness ==
    /\ called
    /\ pid = "Command"
    /\ command = "AuraLedConfig"
    /\ data = SomeData(<<1, 255, 6, 0>>)
    /\ frame = <<239, 1, 255, 255, 255, 255, 1, 0, 7, 53, 1, 255, 6, 0, 1, 67>>

\* C4 as stated: with a payload of 0..=32 bytes present, the frame has
\* 9 + 1 + payload.len() bytes.
C4_Original ==
    (called /\ data.some) => Len(frame) = 9 + 1 + Len(data.v)

\* C4 (amended): with a payload of 0..=32 bytes present, the frame has
\* 2 (header) + 4 (address) + 1 (identifier) + 2 (length) + 1 (instruction)
\* + payload.len() + 2 (checksum) = 12 + payload.len() bytes.
C4_TotalLength ==
    (called /\ data.some) => Len(frame) = 2 + 4 + 1 + 2 + 1 + Len(data.v) + 2

C4_Witness ==
    /\ called
    /\ data.some
    /\ Len(data.v) = DataCap
    /\ Len(frame) = 44

\* C11: a frame built with data = None has the layout of a frame built with
\* an empty payload: 12 bytes, with the length field (value 3, high byte first)
\* between the identifier byte and the instruction byte.
C11_NoneLikeEmpty ==
    (called /\ ~data.some) =>
        /\ Len(frame) = 12
        /\ frame[7] = IdentifierCode[pid]
        /\ BeValue(frame[8], frame[9]) = 3
        /\ frame[10] = InstructionCode[command]
        /\ frame = send(pid, command, SomeData(<<>>))

\* C19: for every explored argument (payloads of 0..=32 bytes) the length
\* 1 + payload.len() + 2 fits 16 bits, every append of send succeeds, and
\* the frame returned has at most 256 bytes.
C19_NoAppendFails ==
    /\ LengthFits(data.v)
    /\ SendAppendsOk(pid, command, data)
    /\ called => Len(frame) <= 256

C19_Witness ==
    /\ called
    /\ pid = "EndOfData"
    /\ data.some
    /\ Len(data.v) = DataCap
    /\ data.v[DataCap] = 255
    /\ Len(frame) = 44

----------------------------------------------------------------------------
(* Claims about the control loop (checked under Spec). *)

RECURSIVE CountKind(_, _)
CountKind(log, k) ==
    IF log = <<>> THEN 0
    ELSE (IF Head(log).kind = k THEN 1 ELSE 0) + CountKind(Tail(log), k)

NumPrimary == CountKind(sent, "primary")
NumFollowUp == CountKind(sent, "followup")

\* The iteration (1, 2, ...) that handed sent[i] to the transport.
IterationOf(i) == CountKind(SubSeq(sent, 1, i), "primary")

\* Every follow-up frame belongs to an iteration whose sampled level was Low.
FollowUpOnlyWhenLow ==
    \A i \in 1..Len(sent) :
        sent[i].kind = "followup" =>
            /\ IterationOf(i) \in 1..Len(levels)
            /\ levels[IterationOf(i)] = "Low"

\* C5 as stated: one primary command per wake-line transition, whenever the
\* transition happens, and a follow-up only in an iteration that sampled Low.
\* Stated for the driver most favourable to it (one that keeps an edge seen
\* outside a wait) and at the points where the loop has caught up with the
\* line: it is waiting and no kept edge is pending.
C5_Original ==
    /\ (halLatches /\ pc = "wait" /\ ~latched) => NumPrimary = edges
    /\ FollowUpOnlyWhenLow

\* C5 (amended): the loop transmits exactly one primary command per completed
\* edge wait, hence at most one per wake-line transition (transitions that
\* happen while a transaction is in progress get no command of their own), and
\* a follow-up only in an iteration whose sampled level was Low.
C5_OnePrimaryPerWait ==
    /\ pc \in {"sample", "write1"} => NumPrimary = waits - 1
    /\ pc \notin {"sample", "write1"} => NumPrimary = waits
    /\ waits <= edges
    /\ FollowUpOnlyWhenLow

C5_Witness ==
    /\ pc = "wait"
    /\ edges = 3
    /\ waits = 2
    /\ NumPrimary = 2
    /\ NumFollowUp = 1
    /\ levels = <<"Low", "High">>

\* C6: when the transport delivers N bytes without error and then stalls, the
\* drain ends at the first timeout holding exactly those N bytes in arrival
\* order, for every N (0 and N > 64 included); in particular it is not cut
\* short before the stall.
C6_DrainExact ==
    readErrs = 0 =>
        /\ pc # "panicked"
        /\ drainEnd = "timeout" => data_read = DeliveredSeq(seed, delivered)

\* C7: once the transport has delivered more than the 64 bytes the buffer can
\* hold, the drain keeps the first 64, accepts no more, and the program is not
\* aborted.
C7_OverrunSurvived ==
    delivered > ReadCap =>
        /\ Len(data_read) = ReadCap
        /\ pc \in {"read", "decide", "wait", "sample"}

\* C8: no reachable state of the control loop is an aborted (panicked) one,
\* whatever the transport does.
C8_NeverAborted == pc # "panicked"

\* C9: a failed write is not retransmitted and changes nothing in what
\* follows: one primary frame per iteration, the drain and the follow-up
\* decision after the primary write whatever its outcome, and the return to
\* the edge wait after the follow-up write whatever its outcome.
C9_WriteFailureContinues ==
    /\ NumPrimary = (IF pc = "write1" THEN Len(levels) - 1 ELSE Len(levels))
    /\ NumFollowUp <= NumPrimary
    /\ primOk # "none" =>
          pc \in {"read", "decide", "writing2", "wait", "sample", "panicked"}
    /\ (primOk # "none" /\ pc \in {"wait", "sample"}) =>
          /\ drainEnd = "timeout"
          /\ (follOk # "none") <=> (color = "Cyan")
    /\ follOk # "none" => pc \in {"wait", "sample"}

C9_Witness ==
    /\ pc = "wait"
    /\ primOk = "err"
    /\ follOk = "err"
    /\ drainEnd = "timeout"
    /\ delivered = 2
    /\ Len(sent) = 2

\* C10: a follow-up frame is written only after the primary write of the same
\* iteration has completed and the drain of that iteration has ended by a
\* timeout; while the drain is reading, no follow-up of the iteration has been
\* written.
C10_FollowUpAfterDrain ==
    /\ (pc = "writing2" \/ follOk # "none") =>
          (primOk # "none" /\ drainEnd = "timeout")
    /\ pc = "read" =>
          /\ follOk = "none"
          /\ sent # <<>>
          /\ sent[Len(sent)].kind = "primary"
    /\ \A i \in 1..Len(sent) :
          sent[i].kind = "followup" => (i > 1 /\ sent[i - 1].kind = "primary")

C10_Witness ==
    /\ pc = "wait"
    /\ follOk = "ok"
    /\ primOk = "ok"
    /\ delivered = 3
    /\ sent[Len(sent)].kind = "followup"

\* C12: at most one sensor-facing operation (edge wait, transport write,
\* transport read) is outstanding at any moment; a read whose deadline passed
\* is no longer outstanding when the follow-up write or the next edge wait
\* starts.
C12_OneOutstanding ==
    /\ Cardinality(io) <= 1
    /\ pc = "wait" => io = {"edge"}
    /\ pc \in {"writing1", "writing2"} => io = {"write"}
    /\ pc = "read" => io = {"read"}
    /\ pc \in {"sample", "write1", "decide"} => io = {}

C12_Witness ==
    /\ pc = "writing2"
    /\ io = {"write"}
    /\ drainEnd = "timeout"
    /\ delivered = 1
    /\ latched

\* C13: during the drain a byte is appended only when a read delivered one:
\* the buffer is exactly the bytes the transport delivered, in order, and a
\* read that completes with a transport error appends nothing.
C13_OnlyDeliveredAppended ==
    pc \in {"read", "decide", "writing2"} =>
        /\ Len(data_read) = delivered
        /\ data_read = DeliveredSeq(seed, delivered)

\* C14: the level that chooses the colour of an iteration is the level the
\* wake line took at the transition that ended the wait of that iteration,
\* whatever the line does afterwards.
C14_LevelAtEdge ==
    (levels # <<>> /\ pc # "sample") =>
        /\ levels[Len(levels)] = edgeLevel
        /\ color = (IF edgeLevel = "Low" THEN "Cyan" ELSE "Blue")

\* C15: every frame handed to the transport, primary or follow-up and for
\* either sampled level, is exactly 16 bytes long, so the conversion to
\* [u8; 16] never fails and never aborts the loop.
C15_FramesAre16 ==
    /\ \A i \in 1..Len(sent) : Len(sent[i].frame) = 16
    /\ abortedAt # "into_array"

C15_Witness ==
    /\ pc = "wait"
    /\ levels = <<"High", "Low">>
    /\ Len(sent) = 3
    /\ sent[1].kind = "primary"
    /\ sent[2].kind = "primary"
    /\ sent[3].kind = "followup"
    /\ Len(sent[3].frame) = 16

\* The frames a run transmits in the iterations whose sampled levels are ls:
\* a function of the levels alone.
RECURSIVE FramesFor(_)
FramesFor(ls) ==
    IF ls = <<>> THEN <<>>
    ELSE (IF Head(ls) = "Low"
          THEN <<PrimaryFrame("Cyan"), FollowUpFrame>>
          ELSE <<PrimaryFrame("Blue")>>) \o FramesFor(Tail(ls))

SentFrames == [i \in 1..Len(sent) |-> sent[i].frame]

IsPrefix(a, b) == Len(a) <= Len(b) /\ a = SubSeq(b, 1, Len(a))

\* C16: the frames transmitted are determined by the sampled levels alone
\* (and by how far the current iteration has come), whatever the replies and
\* the write outcomes were; so two runs with the same sampled levels transmit
\* the same frames in the same order.
C16_FramesFromLevelsOnly ==
    LET n == Len(levels)
        front == SubSeq(levels, 1, n - 1)
        first == <<PrimaryFrame(IF levels[n] = "Low" THEN "Cyan" ELSE "Blue")>>
    IN  /\ IsPrefix(SentFrames, FramesFor(levels))
        /\ pc \in {"wait", "sample", "writing2"} =>
              SentFrames = FramesFor(levels)
        /\ pc = "write1" => SentFrames = FramesFor(front)
        /\ pc \in {"writing1", "read", "decide"} =>
              SentFrames = FramesFor(front) \o first

C16_Witness ==
    /\ pc = "wait"
    /\ Len(levels) = 2
    /\ Len(sent) = 3
    /\ primOk = "err"
    /\ delivered = 2
    /\ readErrs = 1
    /\ seed = 239

\* The drain of the current iteration has made no read attempt yet.
DrainAtStart == pc = "read" /\ delivered = 0 /\ readErrs = 0

\* C17: the buffer is empty when a drain starts, and during and after the
\* drain it holds only bytes the transport delivered in this iteration's
\* drain, never anything else.
C17_OnlyThisDrainsBytes ==
    /\ DrainAtStart => data_read = <<>>
    /\ pc \in {"read", "decide", "writing2"} =>
          \A i \in 1..Len(data_read) :
              \E k \in 1..delivered : data_read[i] = ReplyByte(seed, k)

\* The payload bytes of a 16-byte LED frame (frame offsets 10..13).
PayloadOf(f) == SubSeq(f, 11, 14)

====
